---------------------------- MODULE Spec2Model ----------------------------
(***************************************************************************)
(* Model of the solana-sandwich-bot pipeline:                              *)
(*   mempool.ts   handleTransaction / checkForDexInteraction               *)
(*   sandwich.ts  analyzeSandwichOpportunity and its helpers               *)
(*   execution.ts executeSandwichTrade / executeTrade / waitForTransaction *)
(*   helpers.ts   calculateEstimatedProfit / estimateGasCost               *)
(*   config.ts    config                                                   *)
(*                                                                         *)
(* The program runs on one JavaScript event loop.  An action of the model  *)
(* is one run-to-completion segment: the code executed from the moment an  *)
(* I/O operation or a timer completes until every continuation has parked  *)
(* on the next I/O operation or timer.  An await on a promise that is      *)
(* already settled (identifySwapTransaction, getPoolInfo,                  *)
(* calculateSandwichProfitability, the return of an async function) only   *)
(* yields to the microtask queue, which drains before the next I/O         *)
(* completion is dispatched, so it does not end a segment.                 *)
(*                                                                         *)
(* Amounts of SOL are integers in micro-SOL (1 SOL = 1000000); the         *)
(* gas multiplier is an integer number of tenths.                          *)
(***************************************************************************)
EXTENDS Integers, Sequences, FiniteSets, TLC

\* ------------------------------------------------------------------ bounds

\* Number of handleTransaction invocations (deliveries of the event source).
NumTasks == 2

\* Number of distinct signatures the event source delivers.
NumSigs == 2

\* seenTransactions high-water mark (10000 in mempool.ts, scaled down); the
\* clean-up evicts half of it (5000 in mempool.ts).
SeenHighWater == 1

\* waitForTransaction's default maxRetries (30 in execution.ts, scaled down).
maxRetries == 2

Tasks == 1..NumTasks
Signatures == 1..NumSigs
SeenEvictCount == (SeenHighWater + 1) \div 2

\* ------------------------------------------------------------ config.ts

\* DEX_PROGRAM_IDS: the venues the program knows a program id of.
DEX_PROGRAM_IDS == {"RAYDIUM", "ORCA"}

\* tokenOut of every swap identifySwapTransaction reports (its placeholder).
PlaceholderTokenOut == "DezXAZ8z7PnrnRJjz3wXBoRgixCa6xjnB7YaB1pPB263"
OtherToken == "EPjFWdd5AufqSSqeM2qN1xzybapC8G4wEGGkZwyTDt1v"

\* Environments the process may be started in: values of PROFIT_THRESHOLD
\* (0.01, -1, and 0.999775 SOL, which is the profit the pricing function
\* reports under GAS_MULTIPLIER 1.5), GAS_MULTIPLIER (1.5, 10000), TARGET_DEXS,
\* TARGET_TOKENS and MAX_CONCURRENT_TRADES.
ConfigChoices ==
  { [profitThreshold |-> 10000, gasMultiplier |-> 15,
     targetDexs |-> {"RAYDIUM", "ORCA"},
     targetTokens |-> {PlaceholderTokenOut, OtherToken},
     maxConcurrentTrades |-> 1],
    [profitThreshold |-> -1000000, gasMultiplier |-> 100000,
     targetDexs |-> {"RAYDIUM"}, targetTokens |-> {},
     maxConcurrentTrades |-> 2],
    [profitThreshold |-> 999775, gasMultiplier |-> 15,
     targetDexs |-> {"RAYDIUM"}, targetTokens |-> {},
     maxConcurrentTrades |-> 2],
    [profitThreshold |-> 10000, gasMultiplier |-> 15,
     targetDexs |-> {"ORCA"}, targetTokens |-> {OtherToken},
     maxConcurrentTrades |-> 2] }

VARIABLES
  config,            \* config.ts: the configuration object
  seenTransactions,  \* mempool.ts: the Set, as its insertion-ordered sequence
  forwarded,         \* history: per signature, deliveries that passed the
                     \* membership check since the signature entered the set
  activeSandwiches,  \* sandwich.ts: tokens being sandwiched
  activeExecutions,  \* execution.ts: ids of ongoing executions
  hpc,               \* per task: where handleTransaction is parked
  sig,               \* per task: the signature delivered (0: none yet)
  verdict,           \* per task: how handleTransaction ended: "duplicate",
                     \* "dropped", "analysed" or "executed"
  execId,            \* per task: executeSandwichTrade's executionId (0: none)
  tokenMint,         \* per task: executeSandwichTrade's tokenMint ("": no call)
  swapDex,           \* per task: the dex argument of the pending
                     \* createSandwichTransactions call ("": none pending)
  outcome,           \* per task: what executeSandwichTrade returned
  trade,             \* per task: executeTrade's locals and what it has done
  exited             \* index.ts: process.exit was called

vars == << config, seenTransactions, forwarded, activeSandwiches,
           activeExecutions, hpc, sig, verdict, execId, tokenMint, swapDex,
           outcome, trade, exited >>

\* ------------------------------------------------------------ helpers.ts

\* estimateGasCost(instructionCount): 0.000005 SOL per instruction times
\* config.gasMultiplier.
estimateGasCost(instructionCount, gasMultiplier) ==
  (5 * instructionCount * gasMultiplier) \div 10

\* calculateEstimatedProfit(buyPrice, sellPrice, amount, estimatedGas)
calculateEstimatedProfit(buyPrice, sellPrice, amount, estimatedGas) ==
  LET buyAmount == amount * buyPrice
      sellAmount == amount * sellPrice
      grossProfit == sellAmount - buyAmount
      netProfit == grossProfit - estimatedGas
  IN  netProfit

\* ------------------------------------------------------------ mempool.ts

\* A log line is modelled by the program it names: a venue of
\* DEX_PROGRAM_IDS, or "OTHER".
LogChoices ==
  { << >>, << "OTHER" >>, << "RAYDIUM" >>, << "ORCA" >>,
    << "ORCA", "RAYDIUM" >>, << "OTHER", "ORCA" >> }

\* Membership in a sequence (for the history variable and the properties).
InSeq(seq, x) ==
  \E i \in DOMAIN seq : seq[i] = x

\* A membership test that misses the newest entry.
SeenHasSkipsNewest(seen, signature) ==
  \E i \in 1..(Len(seen) - 1) : seen[i] = signature

\* seenTransactions.has(signature)
SeenHas(seen, signature) ==
  \E i \in 1..Len(seen) : seen[i] = signature

\* seenTransactions.add(signature): a Set keeps insertion order.
SeenAdd(seen, signature) ==
  IF SeenHas(seen, signature) THEN seen ELSE Append(seen, signature)

\* A clean-up that deletes the newest entries.
SeenCleanupEvictsNewest(seen) ==
  IF Len(seen) > SeenHighWater
    THEN SubSeq(seen, 1, Len(seen) - SeenEvictCount)
    ELSE seen

\* The clean-up after the insert: above the high-water mark the oldest
\* entries, in insertion order, are deleted.
SeenCleanup(seen) ==
  IF Len(seen) > SeenHighWater
    THEN SubSeq(seen, SeenEvictCount + 1, Len(seen))
    ELSE seen

\* checkForDexInteraction(logs)
checkForDexInteraction(logs, targetDexs) ==
  IF Len(logs) = 0
    THEN FALSE
    ELSE \E i \in 1..Len(logs) :
           \E dexName \in targetDexs :
             dexName \in DEX_PROGRAM_IDS /\ logs[i] = dexName

\* The history variable after a delivery of `signature` passed the
\* membership check and the set became `seen2`.
ForwardedAfter(fw, signature, seen2) ==
  [s \in Signatures |->
     IF ~ InSeq(seen2, s) THEN 0
     ELSE IF s = signature THEN (IF fw[s] < 2 THEN fw[s] + 1 ELSE 2)
     ELSE fw[s]]

\* The event source names the k-th distinct signature it delivers k.
DeliverableSignatures ==
  { s \in Signatures : s = 1 \/ \E q \in Tasks : sig[q] = s - 1 \/ sig[q] >= s }

\* handleTransaction(signature, logs) up to its first await
\* (connection.getTransaction).  Invocations are numbered in arrival order.
Deliver(p, signature, logs) ==
  /\ ~ exited
  /\ hpc[p] = "idle"
  /\ IF p = 1 THEN TRUE ELSE hpc[p - 1] # "idle"
  /\ signature \in DeliverableSignatures
  /\ sig' = [sig EXCEPT ![p] = signature]
  /\ IF SeenHas(seenTransactions, signature)
       THEN /\ hpc' = [hpc EXCEPT ![p] = "done"]
            /\ verdict' = [verdict EXCEPT ![p] = "duplicate"]
            /\ UNCHANGED << seenTransactions, forwarded >>
       ELSE LET seen2 == SeenCleanup(SeenAdd(seenTransactions, signature))
            IN  /\ seenTransactions' = seen2
                /\ forwarded' = ForwardedAfter(forwarded, signature, seen2)
                /\ IF checkForDexInteraction(logs, config.targetDexs)
                     THEN /\ hpc' = [hpc EXCEPT ![p] = "fetch"]
                          /\ UNCHANGED verdict
                     ELSE /\ hpc' = [hpc EXCEPT ![p] = "done"]
                          /\ verdict' = [verdict EXCEPT ![p] = "dropped"]
  /\ UNCHANGED << config, activeSandwiches, activeExecutions, execId,
                  tokenMint, swapDex, outcome, trade, exited >>

\* ------------------------------------------------------------ sandwich.ts

\* What connection.getTransaction hands to handleTransaction: it throws,
\* returns nothing, or returns the transaction, whose meta (with its
\* logMessages) may be missing.
TxInfoChoices ==
  [status : {"ok", "no-meta", "absent", "throws"}, logs : LogChoices]

\* identifySwapTransaction's venue: the venue of the first log line that
\* names a program of DEX_PROGRAM_IDS ("" when no line does).
FirstDexOf(logs) ==
  IF \E i \in 1..Len(logs) : logs[i] \in DEX_PROGRAM_IDS
    THEN logs[CHOOSE i \in 1..Len(logs) :
                /\ logs[i] \in DEX_PROGRAM_IDS
                /\ \A j \in 1..(i - 1) : logs[j] \notin DEX_PROGRAM_IDS]
    ELSE ""

\* identifySwapTransaction(txInfo): null ("" venue) or the placeholder swap.
\* random07 stands for Math.random() > 0.7.
identifySwapTransaction(logs, random07) ==
  LET dex == FirstDexOf(logs)
  IN  IF dex = "" \/ ~ random07
        THEN [dex |-> "", tokenOut |-> ""]
        ELSE [dex |-> dex, tokenOut |-> PlaceholderTokenOut]

\* getPoolInfo(tokenIn, tokenOut, dex): a pool for RAYDIUM and for ORCA.
getPoolInfo(dex) ==
  dex \in {"RAYDIUM", "ORCA"}

\* calculateSandwichProfitability's placeholder values.
PlaceholderBuyAmount == 100
PlaceholderBuyPrice == 100000
PlaceholderSellPrice == 110000
PlaceholderInstructionCount == 30

\* calculateSandwichProfitability(poolInfo, swapInfo).potentialProfit
potentialProfit(cfg) ==
  calculateEstimatedProfit(PlaceholderBuyPrice, PlaceholderSellPrice,
    PlaceholderBuyAmount,
    estimateGasCost(PlaceholderInstructionCount, cfg.gasMultiplier))

\* calculateSandwichProfitability(poolInfo, swapInfo).canSandwich
canSandwich == TRUE

\* A gate that lets a profit equal to the threshold through.
GateRejectsBelowOnly(can, profit, profitThreshold) ==
  ~ can \/ profit < profitThreshold

\* The gate of analyzeSandwichOpportunity: the candidate is dropped when
\* this holds.
GateRejects(can, profit, profitThreshold) ==
  ~ can \/ profit <= profitThreshold

\* An allow-list test that lets every token through.
OutOfScopeNever(tokenOut, targetTokens) ==
  FALSE

\* The allow-list test of analyzeSandwichOpportunity: a non-empty
\* config.targetTokens without the token.
OutOfScope(tokenOut, targetTokens) ==
  /\ targetTokens # {}
  /\ tokenOut \notin targetTokens

\* analyzeSandwichOpportunity up to createSandwichTransactions, with
\* handleTransaction's checks on txInfo before it: the reason the candidate
\* is dropped, or "proceed".
AnalysisVerdict(txInfo, random07, cfg, sandwiches) ==
  LET swapInfo == identifySwapTransaction(txInfo.logs, random07)
  IN  CASE txInfo.status \in {"absent", "throws"} -> "no-details"
        [] txInfo.status = "no-meta" -> "incomplete"
        [] swapInfo.dex = "" -> "not-a-swap"
        [] swapInfo.tokenOut \in sandwiches -> "already-active"
        [] OutOfScope(swapInfo.tokenOut, cfg.targetTokens) -> "out-of-scope"
        [] ~ getPoolInfo(swapInfo.dex) -> "no-pool"
        [] GateRejects(canSandwich, potentialProfit(cfg),
                       cfg.profitThreshold) -> "unprofitable"
        [] OTHER -> "proceed"

\* What is recorded of a dropped candidate: "dropped" before
\* analyzeSandwichOpportunity was called, "analysed" once it was.
VerdictClass(v) ==
  IF v = "no-details" THEN "dropped" ELSE "analysed"

\* handleTransaction after connection.getTransaction settled, and
\* analyzeSandwichOpportunity up to the await inside
\* createSandwichTransactions (ensureTokenAccount).
FetchDone(p, txInfo, random07) ==
  /\ ~ exited
  /\ hpc[p] = "fetch"
  /\ LET v == AnalysisVerdict(txInfo, random07, config, activeSandwiches)
     IN  IF v = "proceed"
           THEN /\ hpc' = [hpc EXCEPT ![p] = "create"]
                /\ swapDex' = [swapDex EXCEPT ![p] =
                     identifySwapTransaction(txInfo.logs, random07).dex]
                /\ UNCHANGED verdict
           ELSE /\ hpc' = [hpc EXCEPT ![p] = "done"]
                /\ verdict' = [verdict EXCEPT ![p] = VerdictClass(v)]
                /\ UNCHANGED swapDex
  /\ UNCHANGED << config, seenTransactions, forwarded, activeSandwiches,
                  activeExecutions, sig, execId, tokenMint, outcome, trade,
                  exited >>

\* ------------------------------------------------------------ execution.ts

\* Error messages of the results.
TooManyError == "Too many concurrent trades active"
TimedOutError == "Execution timed out"
BuyError == "front-run send failed"
NotConfirmedError == "Transaction not confirmed after maxRetries retries"
SellError == "back-run send failed"
SellConfirmError == "back-run confirmation failed"

\* The priorityLevel arguments of executeTrade's three
\* sendPriorityTransaction calls: front-run, back-run, recovery.
BuyPriorityLevel == 2
SellPriorityLevel == 2
RecoveryPriorityLevel == 3

\* A Transaction as createSandwichTransactions builds it: no compute-budget
\* instruction yet.  limitIxs counts its setComputeUnitLimit instructions
\* and feeIxs lists the priority levels of its setComputeUnitPrice
\* instructions, in the order they were added.
NewTransaction ==
  [limitIxs |-> 0, feeIxs |-> << >>]

\* sendPriorityTransaction(transaction, priorityLevel) up to its first
\* await: addComputeBudgetInstructions and setPriorityFee each add one
\* instruction to the transaction object they are given.
WithBudgetInstructions(transaction, priorityLevel) ==
  [limitIxs |-> transaction.limitIxs + 1,
   feeIxs |-> Append(transaction.feeIxs, priorityLevel)]

\* executeTrade before it starts: its locals, and what it has done so far.
\* retries is waitForTransaction's local (0 outside waitForTransaction); a
\* tier is the priorityLevel a transaction was submitted at (0: not
\* submitted); cleanupFailed is the logged failure of the recovery sell.
NoTrade ==
  [pc |-> "none", retries |-> 0, frontrunSignature |-> FALSE,
   polled |-> FALSE, targetConfirmed |-> FALSE, sellSubmitted |-> FALSE,
   backrunSignature |-> FALSE, sellConfirmed |-> FALSE, recoveries |-> 0,
   cleanupFailed |-> FALSE, buyTier |-> 0, sellTier |-> 0,
   recoveryTier |-> 0, frontrunTx |-> NewTransaction,
   backrunTx |-> NewTransaction, error |-> "", result |-> "none"]

\* executeTrade up to its first await: sendPriorityTransaction(frontrunTx, 2).
StartTrade ==
  [NoTrade EXCEPT !.pc = "buy", !.buyTier = BuyPriorityLevel,
                  !.frontrunTx = WithBudgetInstructions(@, BuyPriorityLevel)]

\* A catch block that returns the failure without the recovery sell.
CatchWithoutRecovery(t, err) ==
  [t EXCEPT !.pc = "returned", !.error = err, !.result = "failure"]

\* A catch block that submits the recovery sell whatever failed.
CatchAlwaysRecovers(t, err) ==
  [t EXCEPT !.pc = "recover", !.recoveries = @ + 1, !.error = err]

\* executeTrade's catch block up to its await: with a front-run signature
\* the recovery sell sendPriorityTransaction(backrunTx, 3) is submitted,
\* without one the failure is returned.
Catch(t, err) ==
  IF t.frontrunSignature
    THEN [t EXCEPT !.pc = "recover", !.recoveries = @ + 1, !.error = err,
                   !.recoveryTier = RecoveryPriorityLevel,
                   !.backrunTx =
                      WithBudgetInstructions(@, RecoveryPriorityLevel)]
    ELSE [t EXCEPT !.pc = "returned", !.error = err, !.result = "failure"]

\* An executeTrade that submits the sell as soon as the buy is accepted.
AfterBuySkipsWait(t, ok) ==
  IF ok
    THEN [t EXCEPT !.frontrunSignature = TRUE, !.pc = "sell",
                   !.sellSubmitted = TRUE]
    ELSE [t EXCEPT !.pc = "returned", !.error = "front-run send failed",
                   !.result = "failure"]

\* After sendPriorityTransaction(frontrunTx, 2) settled: the signature is
\* kept and waitForTransaction issues its first getSignatureStatus.
AfterBuy(t, ok) ==
  IF ok
    THEN [t EXCEPT !.frontrunSignature = TRUE, !.pc = "poll", !.polled = TRUE]
    ELSE Catch(t, BuyError)

\* waitForTransaction's test of a status: confirmationStatus === 'confirmed'.
IsConfirmed(status) ==
  status = "confirmed"

\* What connection.getSignatureStatus gives: no status, a confirmation
\* status, or an error.
StatusChoices == {"absent", "processed", "confirmed", "finalized", "error"}

\* A waitForTransaction that polls once more than its budget.
AfterPollOneMore(t, status) ==
  IF status # "error" /\ status = "confirmed"
    THEN [t EXCEPT !.targetConfirmed = TRUE, !.pc = "sell",
                   !.sellSubmitted = TRUE, !.retries = 0,
                   !.sellTier = SellPriorityLevel,
                   !.backrunTx =
                      WithBudgetInstructions(@, SellPriorityLevel)]
    ELSE IF t.retries + 1 <= maxRetries
           THEN [t EXCEPT !.retries = @ + 1]
           ELSE Catch([t EXCEPT !.retries = 0], NotConfirmedError)

\* waitForTransaction after a getSignatureStatus settled (and, when the
\* status is not confirmed, after the sleep): return and submit the sell
\* sendPriorityTransaction(backrunTx, 2), poll again, or throw.
AfterPoll(t, status) ==
  IF status # "error" /\ IsConfirmed(status)
    THEN [t EXCEPT !.targetConfirmed = TRUE, !.pc = "sell",
                   !.sellSubmitted = TRUE, !.retries = 0,
                   !.sellTier = SellPriorityLevel,
                   !.backrunTx =
                      WithBudgetInstructions(@, SellPriorityLevel)]
    ELSE IF t.retries + 1 < maxRetries
           THEN [t EXCEPT !.retries = @ + 1]
           ELSE Catch([t EXCEPT !.retries = 0], NotConfirmedError)

\* After sendPriorityTransaction(backrunTx, 2) settled:
\* connection.confirmTransaction(backrunSignature) is awaited.
AfterSell(t, ok) ==
  IF ok
    THEN [t EXCEPT !.backrunSignature = TRUE, !.pc = "sellconf"]
    ELSE Catch(t, SellError)

\* After connection.confirmTransaction settled: success is returned.
AfterSellConfirm(t, ok) ==
  IF ok
    THEN [t EXCEPT !.sellConfirmed = TRUE, !.pc = "returned",
                   !.result = "success"]
    ELSE Catch(t, SellConfirmError)

\* A recovery whose own failure replaces the failure that was caught.
AfterRecoveryRethrows(t, ok) ==
  IF ok
    THEN [t EXCEPT !.pc = "returned", !.result = "failure"]
    ELSE [t EXCEPT !.pc = "returned", !.result = "failure",
                   !.cleanupFailed = TRUE, !.error = "recovery send failed"]

\* After the recovery sell settled: its own failure is only logged, and the
\* failure that was caught is returned.
AfterRecovery(t, ok) ==
  [t EXCEPT !.pc = "returned", !.result = "failure", !.cleanupFailed = ~ ok]

\* A capacity test that never rejects.
AtCapacityNever(size, maxConcurrentTrades) ==
  FALSE

\* A capacity test that admits one execution too many.
AtCapacityOffByOne(size, maxConcurrentTrades) ==
  size > maxConcurrentTrades

\* executeSandwichTrade's capacity test.
AtCapacity(size, maxConcurrentTrades) ==
  size >= maxConcurrentTrades

\* executeSandwichTrade's executionId, sandwich-<Date.now()>-<random below
\* 1000>: a fresh identifier (named by the task), or, in the same
\* millisecond with the same random number, that of an ongoing execution.
ExecutionIdChoices(p, executions) ==
  {p} \cup executions

\* A clean-up that runs on the success path only.
ReleaseExecutionOnSuccess(executions, executionId, res) ==
  IF res = "success" THEN executions \ {executionId} ELSE executions

\* executeSandwichTrade's finally block.
ReleaseExecution(executions, executionId, res) ==
  executions \ {executionId}

\* analyzeSandwichOpportunity's finally block.
ReleaseSandwich(sandwiches, tokenOut) ==
  sandwiches \ {tokenOut}

\* What executeSandwichTrade returns for executeTrade's result.
ResultOf(t) ==
  IF t.result = "success" THEN "success" ELSE t.error

\* executeSandwichTrade returns `res` to analyzeSandwichOpportunity, which
\* logs it and returns to handleTransaction: both finally blocks run.
ControllerReturns(p, res) ==
  /\ outcome' = [outcome EXCEPT ![p] = res]
  /\ activeExecutions' = ReleaseExecution(activeExecutions, execId[p], res)
  /\ activeSandwiches' = ReleaseSandwich(activeSandwiches, tokenMint[p])
  /\ hpc' = [hpc EXCEPT ![p] = "done"]
  /\ verdict' = [verdict EXCEPT ![p] = "executed"]

\* executeTrade moves to `t`; when it returns while executeSandwichTrade
\* still awaits the race, its result settles the race.
TradeMoves(p, t) ==
  /\ ~ exited
  /\ trade' = [trade EXCEPT ![p] = t]
  /\ IF t.pc = "returned" /\ hpc[p] = "exec"
       THEN ControllerReturns(p, ResultOf(t))
       ELSE UNCHANGED << outcome, activeExecutions, activeSandwiches, hpc,
                         verdict >>
  /\ UNCHANGED << config, seenTransactions, forwarded, sig, execId,
                  tokenMint, swapDex, exited >>

\* A rejection that registers the execution before it tests the capacity
\* and leaves it registered.
RejectAfterRegistering(p, token) ==
  /\ tokenMint' = [tokenMint EXCEPT ![p] = token]
  /\ outcome' = [outcome EXCEPT ![p] = TooManyError]
  /\ hpc' = [hpc EXCEPT ![p] = "done"]
  /\ verdict' = [verdict EXCEPT ![p] = "executed"]
  /\ execId' = [execId EXCEPT ![p] = p]
  /\ activeExecutions' = activeExecutions \cup {p}
  /\ UNCHANGED trade

\* executeSandwichTrade at capacity: the failure is returned at once (and
\* the caller returns).
RejectAtCapacity(p, token) ==
  /\ tokenMint' = [tokenMint EXCEPT ![p] = token]
  /\ outcome' = [outcome EXCEPT ![p] = TooManyError]
  /\ hpc' = [hpc EXCEPT ![p] = "done"]
  /\ verdict' = [verdict EXCEPT ![p] = "executed"]
  /\ UNCHANGED << activeExecutions, execId, trade >>

\* executeSandwichTrade below capacity, up to its await of the race: the
\* execution is registered, executeTrade is started and the timer is set.
Admit(p, token) ==
  /\ tokenMint' = [tokenMint EXCEPT ![p] = token]
  /\ \E id \in ExecutionIdChoices(p, activeExecutions) :
       /\ execId' = [execId EXCEPT ![p] = id]
       /\ activeExecutions' = activeExecutions \cup {id}
  /\ trade' = [trade EXCEPT ![p] = StartTrade]
  /\ hpc' = [hpc EXCEPT ![p] = "exec"]
  /\ UNCHANGED << outcome, verdict >>

\* analyzeSandwichOpportunity after createSandwichTransactions settled:
\* without transactions it returns; with them it marks the token and calls
\* executeSandwichTrade, which rejects at capacity or registers the
\* execution and starts executeTrade and the timer.
CreateDone(p, ok) ==
  /\ ~ exited
  /\ hpc[p] = "create"
  /\ \/ /\ ~ ok
        /\ hpc' = [hpc EXCEPT ![p] = "done"]
        /\ verdict' = [verdict EXCEPT ![p] = "analysed"]
        /\ UNCHANGED << activeSandwiches, activeExecutions, execId,
                        tokenMint, outcome, trade >>
     \/ /\ ok
        /\ AtCapacity(Cardinality(activeExecutions), config.maxConcurrentTrades)
        /\ RejectAtCapacity(p, PlaceholderTokenOut)
        /\ activeSandwiches' =
             ReleaseSandwich(activeSandwiches \cup {PlaceholderTokenOut},
                             PlaceholderTokenOut)
     \/ /\ ok
        /\ ~ AtCapacity(Cardinality(activeExecutions), config.maxConcurrentTrades)
        /\ Admit(p, PlaceholderTokenOut)
        /\ activeSandwiches' = activeSandwiches \cup {PlaceholderTokenOut}
  /\ swapDex' = [swapDex EXCEPT ![p] = ""]
  /\ UNCHANGED << config, seenTransactions, forwarded, sig, exited >>

\* sendPriorityTransaction(frontrunTx, 2) settles.
BuyDone(p, ok) ==
  /\ trade[p].pc = "buy"
  /\ TradeMoves(p, AfterBuy(trade[p], ok))

\* connection.getSignatureStatus(targetTxSignature) settles.
PollDone(p, status) ==
  /\ trade[p].pc = "poll"
  /\ TradeMoves(p, AfterPoll(trade[p], status))

\* sendPriorityTransaction(backrunTx, 2) settles.
SellDone(p, ok) ==
  /\ trade[p].pc = "sell"
  /\ TradeMoves(p, AfterSell(trade[p], ok))

\* connection.confirmTransaction(backrunSignature, 'confirmed') settles.
SellConfirmDone(p, ok) ==
  /\ trade[p].pc = "sellconf"
  /\ TradeMoves(p, AfterSellConfirm(trade[p], ok))

\* The recovery sell sendPriorityTransaction(backrunTx, 3) settles.
RecoveryDone(p, ok) ==
  /\ trade[p].pc = "recover"
  /\ TradeMoves(p, AfterRecovery(trade[p], ok))

\* A race that was given no timer.
TimerNeverSet(p) ==
  FALSE

\* The race of executeSandwichTrade is still open: the timer it set can
\* settle it.
TimerPending(p) ==
  hpc[p] = "exec"

\* timeout(config.executionTimeoutMs) fires before executeTrade returned:
\* the race rejects and executeSandwichTrade returns the error.  Nothing
\* stops executeTrade, which goes on.
Timeout(p) ==
  /\ ~ exited
  /\ TimerPending(p)
  /\ ControllerReturns(p, TimedOutError)
  /\ UNCHANGED << config, seenTransactions, forwarded, sig, execId,
                  tokenMint, swapDex, trade, exited >>

\* A caller other than analyzeSandwichOpportunity calls the exported
\* executeSandwichTrade with a token of its choice: the call is rejected at
\* capacity, or registered and started.  activeSandwiches is the
\* analyzer's and is not touched.
ExecuteSandwichTrade(p, token) ==
  /\ ~ exited
  /\ hpc[p] = "idle"
  /\ IF p = 1 THEN TRUE ELSE hpc[p - 1] # "idle"
  /\ \/ /\ AtCapacity(Cardinality(activeExecutions),
                       config.maxConcurrentTrades)
        /\ RejectAtCapacity(p, token)
     \/ /\ ~ AtCapacity(Cardinality(activeExecutions),
                         config.maxConcurrentTrades)
        /\ Admit(p, token)
  /\ UNCHANGED << config, seenTransactions, forwarded, activeSandwiches,
                  sig, swapDex, exited >>

\* index.ts: SIGINT or SIGTERM runs shutdown(), which calls process.exit(0):
\* every pending callback of the process is dropped.
Shutdown ==
  /\ ~ exited
  /\ exited' = TRUE
  /\ UNCHANGED << config, seenTransactions, forwarded, activeSandwiches,
                  activeExecutions, hpc, sig, verdict, execId, tokenMint,
                  swapDex, outcome, trade >>

\* ------------------------------------------------------ the state machine

Init ==
  /\ config \in ConfigChoices
  /\ seenTransactions = << >>
  /\ forwarded = [s \in Signatures |-> 0]
  /\ activeSandwiches = {}
  /\ activeExecutions = {}
  /\ hpc = [p \in Tasks |-> "idle"]
  /\ sig = [p \in Tasks |-> 0]
  /\ verdict = [p \in Tasks |-> ""]
  /\ execId = [p \in Tasks |-> 0]
  /\ tokenMint = [p \in Tasks |-> ""]
  /\ swapDex = [p \in Tasks |-> ""]
  /\ exited = FALSE
  /\ outcome = [p \in Tasks |-> ""]
  /\ trade = [p \in Tasks |-> NoTrade]

Next ==
  \E p \in Tasks :
    \/ \E signature \in Signatures, logs \in LogChoices :
         Deliver(p, signature, logs)
    \/ \E txInfo \in TxInfoChoices, random07 \in BOOLEAN :
         FetchDone(p, txInfo, random07)
    \/ \E ok \in BOOLEAN : CreateDone(p, ok)
    \/ \E ok \in BOOLEAN : BuyDone(p, ok)
    \/ \E status \in StatusChoices : PollDone(p, status)
    \/ \E ok \in BOOLEAN : SellDone(p, ok)
    \/ \E ok \in BOOLEAN : SellConfirmDone(p, ok)
    \/ \E ok \in BOOLEAN : RecoveryDone(p, ok)
    \/ Timeout(p)

Spec == Init /\ [][Next]_vars

\* The program with its deadline timers: a timer that was set fires unless
\* the race it belongs to is settled first.  Nothing is assumed of the
\* RPC node: a call to it may never settle.
LiveSpec == Spec /\ \A p \in Tasks : WF_vars(Timeout(p))

\* The program when an interrupt signal may arrive.
NextOrShutdown ==
  \/ Next
  \/ Shutdown

SpecShutdown == Init /\ [][NextOrShutdown]_vars

\* executeSandwichTrade driven by direct calls with any token.
TokenChoices == {PlaceholderTokenOut, OtherToken}

NextController ==
  \E p \in Tasks :
    \/ \E token \in TokenChoices : ExecuteSandwichTrade(p, token)
    \/ \E ok \in BOOLEAN : BuyDone(p, ok)
    \/ \E status \in StatusChoices : PollDone(p, status)
    \/ \E ok \in BOOLEAN : SellDone(p, ok)
    \/ \E ok \in BOOLEAN : SellConfirmDone(p, ok)
    \/ \E ok \in BOOLEAN : RecoveryDone(p, ok)
    \/ Timeout(p)

\* The direct callers run under the default profit threshold, which
\* executeSandwichTrade does not read.
InitController ==
  /\ Init
  /\ config.profitThreshold = 10000

SpecController == InitController /\ [][NextController]_vars

\* ------------------------------------------------------------- properties

\* executeSandwichTrade was entered by task p and has not returned.
Executing(p) == hpc[p] = "exec"

\* analyzeSandwichOpportunity or executeSandwichTrade is in flight in task p.
CallInFlight(p) == hpc[p] \in {"create", "exec"}

\* The errors of the steps that follow an accepted buy.
LaterStepErrors == {NotConfirmedError, SellError, SellConfirmError}

\* C1: for every output asset at most one execution (executeSandwichTrade
\* entered and not yet returned) exists at any instant.  Every candidate has
\* the output token PlaceholderTokenOut, so: at most one task is executing.
C1_OneExecutionPerAsset ==
  \A p, q \in Tasks : Executing(p) /\ Executing(q) => p = q

\* C2: the number of entries of activeExecutions never exceeds
\* config.maxConcurrentTrades.
C2_CapNeverExceeded ==
  Cardinality(activeExecutions) <= config.maxConcurrentTrades

\* C2 witness: a call was rejected at capacity while the set is full.
C2_Witness ==
  \E p \in Tasks :
    /\ outcome[p] = TooManyError
    /\ Cardinality(activeExecutions) = config.maxConcurrentTrades

\* The flags of executeTrade's record are set once and never cleared, so an
\* implication between two flags that holds in every state orders the two
\* events.
TradeFlagsKept(p) ==
  /\ trade[p].frontrunSignature => trade'[p].frontrunSignature
  /\ trade[p].polled => trade'[p].polled
  /\ trade[p].targetConfirmed => trade'[p].targetConfirmed
  /\ trade[p].sellSubmitted => trade'[p].sellSubmitted
  /\ trade[p].backrunSignature => trade'[p].backrunSignature
  /\ trade[p].sellConfirmed => trade'[p].sellConfirmed

TradeInOrder(p) ==
  LET t == trade[p]
  IN  /\ t.polled => t.frontrunSignature /\ t.pc # "none"
      /\ t.targetConfirmed => t.polled
      /\ t.sellSubmitted => t.targetConfirmed
      /\ t.backrunSignature => t.sellSubmitted
      /\ t.sellConfirmed => t.backrunSignature
      /\ t.result = "success" =>
           /\ t.frontrunSignature /\ t.targetConfirmed
           /\ t.sellSubmitted /\ t.sellConfirmed
      /\ outcome[p] = "success" => t.result = "success"

\* C3: within one execution the first poll of the target's status comes
\* after the buy was submitted (and accepted), the normal sell is submitted
\* only after the target was observed confirmed, and success is returned
\* only after buy accepted, target confirmed, sell submitted and sell
\* confirmed, in that order.
C3_SequenceOrder ==
  /\ [](\A p \in Tasks : TradeInOrder(p))
  /\ [][\A p \in Tasks : TradeFlagsKept(p)]_vars

\* C3 witness: an execution returned success.
C3_Witness ==
  \E p \in Tasks : outcome[p] = "success" /\ trade[p].sellConfirmed

RecoveryOnce(p) ==
  LET t == trade[p]
  IN  /\ t.recoveries <= 1
      /\ t.frontrunSignature /\ t.error # "" => t.recoveries = 1
      /\ t.pc = "recover" => t.recoveries = 1
      /\ t.pc = "returned" /\ t.result = "failure" /\ t.frontrunSignature
           => t.recoveries = 1
      /\ outcome[p] \in LaterStepErrors =>
           t.pc = "returned" /\ t.recoveries = 1

\* A step of task p's executeTrade out of the recovery sell returns, and
\* submits nothing.
RecoveryNotRetried(p) ==
  trade[p].pc = "recover" /\ trade'[p] # trade[p] =>
    /\ trade'[p].pc = "returned"
    /\ trade'[p].recoveries = trade[p].recoveries
    /\ trade'[p].sellSubmitted = trade[p].sellSubmitted

\* C4: when the buy was accepted and a later step fails (retry budget
\* exhausted, sell rejected, sell confirmation failed), exactly one
\* recovery sell is submitted, before that failure is returned, and it is
\* not retried.
C4_RecoveryExactlyOnce ==
  /\ [](\A p \in Tasks : RecoveryOnce(p))
  /\ [][\A p \in Tasks : RecoveryNotRetried(p)]_vars

\* C4 witness: executeSandwichTrade returned the sell's failure after one
\* recovery sell.
C4_Witness ==
  \E p \in Tasks : outcome[p] = SellError /\ trade[p].recoveries = 1

\* C5: when the deadline expires in an execution whose buy was accepted,
\* the recovery sell has been submitted when executeSandwichTrade returns
\* the timeout outcome.
C5_RecoveryBeforeTimeoutReturn ==
  [][\A p \in Tasks :
       /\ outcome[p] # TimedOutError
       /\ outcome'[p] = TimedOutError
       /\ trade[p].frontrunSignature
       => trade'[p].recoveries >= 1]_vars

\* Task p's executeTrade issues a status poll, submits the normal sell or
\* starts waiting for the sell's confirmation in this step.
ContinuesSequence(p) ==
  \/ trade'[p].pc = "poll" /\ trade'[p] # trade[p]
  \/ trade'[p].sellSubmitted /\ ~ trade[p].sellSubmitted
  \/ trade'[p].pc = "sellconf" /\ trade[p].pc # "sellconf"

\* C6: once executeSandwichTrade has returned the timeout outcome, the
\* execution performs no further status poll, no normal sell submission
\* and no sell confirmation wait.
C6_TimeoutAbortsSequence ==
  [][\A p \in Tasks :
       outcome[p] = TimedOutError => ~ ContinuesSequence(p)]_vars

BuyFailureIsClean(p) ==
  LET t == trade[p]
  IN  /\ t.error = BuyError =>
           /\ ~ t.frontrunSignature /\ ~ t.polled /\ ~ t.sellSubmitted
           /\ t.recoveries = 0
           /\ t.pc = "returned" /\ t.result = "failure"
           /\ hpc[p] = "done"
           /\ outcome[p] \in {BuyError, TimedOutError}
      /\ t.pc = "recover" \/ t.recoveries > 0 => t.frontrunSignature

\* C7: if the buy submission fails, no recovery sell and no other
\* transaction is submitted and the failure carrying the broadcast error is
\* returned (unless the deadline had already returned the timeout); recovery
\* is entered only with a front-run signature.
C7_NoRecoveryWithoutBuy ==
  \A p \in Tasks : BuyFailureIsClean(p)

\* C7 witness: executeSandwichTrade returned the buy's broadcast error.
C7_Witness ==
  \E p \in Tasks : outcome[p] = BuyError /\ trade[p].recoveries = 0

\* C8: an executeSandwichTrade call that inserted its identifier has
\* removed it when it returns, on every path; the token leaves
\* activeSandwiches when analyzeSandwichOpportunity returns; with no call
\* in flight both sets are empty.
C8_SetsReleased ==
  /\ \A p \in Tasks :
       hpc[p] = "done" /\ execId[p] # 0 => execId[p] \notin activeExecutions
  /\ activeExecutions \subseteq { execId[p] : p \in { q \in Tasks : Executing(q) } }
  /\ activeSandwiches # {} => \E p \in Tasks : Executing(p)
  /\ (\A p \in Tasks : ~ CallInFlight(p)) =>
       activeSandwiches = {} /\ activeExecutions = {}

\* C8 witness: no call is in flight after an execution that ended by the
\* deadline and whose sequence then failed and recovered.
C8_Witness ==
  /\ \A p \in Tasks : ~ CallInFlight(p)
  /\ \E p \in Tasks :
       /\ outcome[p] = TimedOutError
       /\ trade[p].pc = "returned" /\ trade[p].recoveries = 1

\* C9: a signature passes the membership check exactly once while it is in
\* seenTransactions, and a delivery of a signature that is in the set stops
\* at the check and changes nothing.
C9_ForwardedOnce ==
  /\ [](\A s \in Signatures :
          forwarded[s] = IF InSeq(seenTransactions, s) THEN 1 ELSE 0)
  /\ [][\A p \in Tasks :
          /\ hpc[p] = "idle" /\ hpc'[p] # "idle"
          /\ InSeq(seenTransactions, sig'[p])
          => /\ hpc'[p] = "done" /\ verdict'[p] = "duplicate"
             /\ seenTransactions' = seenTransactions]_vars

\* C9 witness: a repeated delivery was stopped at the check while the
\* invocation that first delivered its signature was still running.
C9_Witness ==
  \E p, q \in Tasks :
    /\ verdict[p] = "duplicate"
    /\ q # p /\ sig[q] = sig[p] /\ hpc[q] \in {"fetch", "create", "exec"}
    /\ InSeq(seenTransactions, sig[p])
    /\ forwarded[sig[p]] = 1

\* C10: executeSandwichTrade is never called for a candidate whose computed
\* net profit is zero or negative, whatever config.profitThreshold is.
C10_NoNonPositiveProfitExecuted ==
  \A p \in Tasks :
    Executing(p) \/ outcome[p] # "" => potentialProfit(config) > 0


\* C11: when the buy was accepted and the target is not confirmed within
\* the retry budget, executeSandwichTrade returns the target-not-confirmed
\* failure with one recovery sell attempted before it and the execution
\* removed from activeExecutions; the time spent waiting for the target
\* does not count against the deadline, so executeSandwichTrade does not
\* return the timeout failure while executeTrade waits for the target.
InTargetWait(p) ==
  trade[p].pc = "poll"

C11_TargetNotConfirmedOutcome ==
  /\ [](\A p \in Tasks :
         outcome[p] = NotConfirmedError =>
           /\ trade[p].recoveries = 1
           /\ execId[p] \notin activeExecutions)
  /\ [][\A p \in Tasks :
         (InTargetWait(p) /\ outcome'[p] # outcome[p]) =>
           outcome'[p] # TimedOutError]_vars


\* C12: with a cap of 1, of two profitable candidates for the same output
\* token that are processed concurrently, one is admitted and the other is
\* rejected as a duplicate target, not with the capacity failure.  (Every
\* candidate of the analyzer has the same output token, and the set is
\* full only while another execution is active.)
C12_DuplicateNotCapacity ==
  config.maxConcurrentTrades = 1 =>
    \A p \in Tasks : outcome[p] # TooManyError


\* executeSandwichTrade is called for task q in this step.
Called(q) ==
  hpc[q] = "idle" /\ hpc'[q] # "idle"

\* C13 (as claimed): with a cap of 1, a candidate that arrives while the
\* only active executions are for other output tokens is admitted, so that
\* two candidates for different tokens both run.
C13_DifferentTokensBothAdmitted ==
  [][\A q \in Tasks :
       ( /\ config.maxConcurrentTrades = 1
         /\ Called(q)
         /\ \E p \in Tasks : Executing(p)
         /\ \A p \in Tasks : Executing(p) => tokenMint[p] # tokenMint'[q] )
       => hpc'[q] = "exec"]_vars

\* C13 (amended): admission is decided by the number of active executions
\* alone, whatever the token.  A call that finds activeExecutions at the
\* cap is rejected with the capacity failure and starts no trade; a call
\* below the cap is admitted.  With a cap of 1, two executions for
\* different tokens never run side by side under executeSandwichTrade.
C13_CapDecidesAdmission ==
  /\ [](config.maxConcurrentTrades = 1 =>
          \A p, q \in Tasks :
            (Executing(p) /\ Executing(q)) => p = q)
  /\ [][\A q \in Tasks :
         Called(q) =>
           IF Cardinality(activeExecutions) >= config.maxConcurrentTrades
             THEN /\ outcome'[q] = TooManyError
                  /\ trade'[q] = NoTrade
                  /\ activeExecutions' = activeExecutions
             ELSE /\ hpc'[q] = "exec"
                  /\ trade'[q].pc = "buy"
                  /\ execId'[q] \in activeExecutions']_vars

C13_Witness ==
  /\ config.maxConcurrentTrades = 1
  /\ \E p, q \in Tasks :
       /\ Executing(p)
       /\ tokenMint[q] # ""
       /\ tokenMint[q] # tokenMint[p]
       /\ outcome[q] = TooManyError
       /\ trade[q] = NoTrade


\* The result objects of executeSandwichTrade: success, or one of its
\* failures.
ResultObjects ==
  {"success", TooManyError, TimedOutError, BuyError, NotConfirmedError,
   SellError, SellConfirmError}

\* C14: executeSandwichTrade never raises to its caller.  Whatever the
\* collaborators answer, a call that has returned has returned a result
\* object, executeTrade itself returns success or the failure it caught,
\* and a failing recovery sell leaves the failure that is returned the one
\* that was caught before the recovery.
C14_AlwaysResolves ==
  /\ [](\A p \in Tasks :
         /\ (hpc[p] = "done" /\ verdict[p] = "executed") =>
              outcome[p] \in ResultObjects
         /\ trade[p].pc = "returned" =>
              \/ trade[p].result = "success"
              \/ trade[p].result = "failure" /\ trade[p].error \in ResultObjects)
  /\ [][\A p \in Tasks :
         (trade[p].pc = "recover" /\ trade'[p].pc = "returned") =>
           /\ trade'[p].error = trade[p].error
           /\ Executing(p) => outcome'[p] = trade[p].error]_vars

C14_Witness ==
  \E p \in Tasks :
    /\ hpc[p] = "done"
    /\ trade[p].cleanupFailed
    /\ outcome[p] = trade[p].error
    /\ outcome[p] = SellError


\* C15: an admitted execution produces one terminal outcome: once
\* executeSandwichTrade has returned a failure, which the analyzer reports
\* as "Sandwich trade failed", the same execution is not afterwards
\* reported as completed successfully by executeTrade.
ReportedFailed(p) ==
  outcome[p] \in ResultObjects \ {"success"}

ReportedSuccessful(p) ==
  trade[p].result = "success"

C15_OneTerminalOutcome ==
  \A p \in Tasks : ReportedFailed(p) => ~ ReportedSuccessful(p)


\* analyzeSandwichOpportunity calls executeSandwichTrade for task q in this
\* step.
CalledByAnalyzer(q) ==
  /\ hpc[q] = "create"
  /\ hpc'[q] = "exec" \/ verdict'[q] = "executed"

\* C16: a call of executeSandwichTrade that finds activeExecutions at the
\* cap returns the capacity failure in the same step, leaves
\* activeExecutions as it was, and submits and polls nothing, then or
\* later: the candidate is not queued.
C16_CapacityRejection ==
  /\ [](\A q \in Tasks :
         outcome[q] = TooManyError =>
           /\ hpc[q] = "done"
           /\ trade[q] = NoTrade
           /\ execId[q] = 0)
  /\ [][\A q \in Tasks :
         ( /\ CalledByAnalyzer(q)
           /\ Cardinality(activeExecutions) >= config.maxConcurrentTrades )
         => /\ outcome'[q] = TooManyError
            /\ activeExecutions' = activeExecutions
            /\ trade' = trade]_vars

C16_Witness ==
  \E p, q \in Tasks :
    /\ p # q
    /\ Executing(p)
    /\ trade[p].frontrunSignature
    /\ outcome[q] = TooManyError
    /\ trade[q] = NoTrade
    /\ activeExecutions = {execId[p]}


\* C17: the normal sell is submitted at a priority tier strictly higher
\* than the tier the buy was submitted at.
C17_SellTierAboveBuyTier ==
  \A p \in Tasks :
    trade[p].sellSubmitted => trade[p].sellTier > trade[p].buyTier


\* C18: an interrupt signal stops the admission of new executions, but the
\* executions that are active are not cancelled: each still reaches its
\* terminal outcome, so the process is not gone while an admitted
\* execution has not returned.
C18_ActiveExecutionsOutliveSignal ==
  exited => \A p \in Tasks : ~ Executing(p)


\* C19: every admitted execution eventually returns a terminal outcome to
\* its caller and is removed from activeExecutions, even when a
\* collaborator never answers, provided only that the deadline timer
\* fires.
Returned(p) ==
  /\ hpc[p] = "done"
  /\ outcome[p] \in ResultObjects
  /\ execId[p] \notin activeExecutions

C19_AdmittedEventuallyReturns ==
  \A p \in Tasks : Executing(p) ~> Returned(p)

C19_Witness ==
  \E p \in Tasks :
    /\ Returned(p)
    /\ outcome[p] = TimedOutError
    /\ trade[p].pc = "buy"


\* executeTrade was started for task p and has not returned.
SequenceRunning(p) ==
  trade[p].pc \notin {"none", "returned"}

\* C20: the number of trade sequences that are running, those whose
\* executeSandwichTrade has already returned on the deadline included,
\* never exceeds the concurrency cap.
C20_RunningSequencesWithinCap ==
  Cardinality({p \in Tasks : SequenceRunning(p)}) <=
    config.maxConcurrentTrades


\* C21: waitForTransaction ends after at most maxRetries polls.  While it
\* polls, fewer than maxRetries polls have failed; a poll that reports
\* "confirmed" makes it return (the sell is submitted); any other poll, one
\* that raised an error included, consumes one retry; and the poll that
\* consumes the last retry makes it fail with the not-confirmed error
\* instead of polling again.
PollConsumesRetry(t, status) ==
  LET t2 == AfterPoll(t, status)
  IN  IF t.retries + 1 < maxRetries
        THEN t2.pc = "poll" /\ t2.retries = t.retries + 1
        ELSE t2.pc # "poll" /\ t2.error = NotConfirmedError

C21_WaitTerminates ==
  /\ [](\A p \in Tasks :
         InTargetWait(p) =>
           /\ trade[p].retries < maxRetries
           /\ AfterPoll(trade[p], "confirmed").pc = "sell"
           /\ PollConsumesRetry(trade[p], "error")
           /\ PollConsumesRetry(trade[p], "absent")
           /\ PollConsumesRetry(trade[p], "processed"))
  /\ [][\A p \in Tasks :
         (InTargetWait(p) /\ trade'[p] # trade[p]) =>
           \/ trade'[p].pc = "sell" /\ trade'[p].targetConfirmed
           \/ /\ InTargetWait(p)'
              /\ trade'[p].retries = trade[p].retries + 1
           \/ /\ trade'[p].error = NotConfirmedError
              /\ trade[p].retries = maxRetries - 1]_vars

C21_Witness ==
  \E p \in Tasks :
    /\ trade[p].error = NotConfirmedError
    /\ trade[p].frontrunSignature
    /\ ~ trade[p].targetConfirmed
    /\ trade[p].pc = "recover"


\* handleTransaction is entered for task p in this step and the signature
\* passes the membership test.
DeliveredNew(p) ==
  /\ hpc[p] = "idle"
  /\ hpc'[p] # "idle"
  /\ verdict'[p] # "duplicate"

\* C22: after every handleTransaction call seenTransactions holds at most
\* the high-water mark of entries; when an insert makes it larger, exactly
\* the oldest entries in insertion order (half the mark) are evicted, and
\* the signature just inserted is not among them.
C22_SeenSetBounded ==
  /\ [](Len(seenTransactions) <= SeenHighWater)
  /\ [][\A p \in Tasks :
         DeliveredNew(p) =>
           LET grown == Append(seenTransactions, sig'[p])
           IN  /\ InSeq(seenTransactions', sig'[p])
               /\ IF Len(grown) > SeenHighWater
                    THEN seenTransactions' =
                           SubSeq(grown, SeenEvictCount + 1, Len(grown))
                    ELSE seenTransactions' = grown]_vars

C22_Witness ==
  \E s \in Signatures :
    /\ \E p \in Tasks : sig[p] = s
    /\ ~ InSeq(seenTransactions, s)
    /\ seenTransactions # << >>


\* C23: with a non-empty allow-list (config.targetTokens) no execution is
\* started, and no transactions are built, for an output token outside
\* the list; with an empty list every output token is eligible.
C23_AllowListRespected ==
  /\ \A p \in Tasks :
       tokenMint[p] # "" =>
         (config.targetTokens = {} \/ tokenMint[p] \in config.targetTokens)
  /\ (\E p \in Tasks : hpc[p] = "create") =>
       (config.targetTokens = {} \/ PlaceholderTokenOut \in config.targetTokens)
  /\ config.targetTokens = {} =>
       \A t \in TokenChoices : ~ OutOfScope(t, config.targetTokens)

C23_Witness ==
  /\ config.targetTokens # {}
  /\ PlaceholderTokenOut \notin config.targetTokens
  /\ \E p \in Tasks : hpc[p] = "done" /\ verdict[p] = "analysed"


\* analyzeSandwichOpportunity went past its profitability gate for task p.
PassedGate(p) ==
  hpc[p] \in {"create", "exec"} \/ verdict[p] = "executed"

C25_VenueIsConfigured ==
  \A p \in Tasks : swapDex[p] # "" => swapDex[p] \in config.targetDexs


\* C26: whenever an execution for an output token is in progress
\* (executeSandwichTrade entered and not returned) the token is in
\* activeSandwiches; the finish or the rejection of one candidate for the
\* token does not remove it while another execution for it is running.
C26_ActiveTokenStaysMarked ==
  \A p \in Tasks : Executing(p) => tokenMint[p] \in activeSandwiches


\* C27: the size of activeExecutions equals the number of admitted
\* executeSandwichTrade calls that have not returned: the identifiers of
\* executions that are active together are pairwise distinct, and the
\* removal of one execution does not remove another's entry.
C27_OneEntryPerExecution ==
  /\ Cardinality(activeExecutions) =
       Cardinality({p \in Tasks : Executing(p)})
  /\ \A p, q \in Tasks :
       (Executing(p) /\ Executing(q) /\ p # q) => execId[p] # execId[q]


\* The transaction carries one compute-unit-limit instruction and one
\* priority-fee instruction, of the given level.
OneOfEach(transaction, priorityLevel) ==
  /\ transaction.limitIxs = 1
  /\ transaction.feeIxs = << priorityLevel >>

\* C28: every transaction handed to the broadcaster carries exactly one
\* compute-unit-limit instruction and exactly one priority-fee
\* instruction, at the tier of that submission: the buy, the normal sell,
\* and the recovery sell, also when the recovery follows a failed normal
\* submission of the same sell transaction object.
C28_OneBudgetInstructionEach ==
  \A p \in Tasks :
    /\ trade[p].pc # "none" =>
         OneOfEach(trade[p].frontrunTx, trade[p].buyTier)
    /\ (trade[p].sellSubmitted /\ trade[p].recoveries = 0) =>
         OneOfEach(trade[p].backrunTx, trade[p].sellTier)
    /\ trade[p].recoveries > 0 =>
         OneOfEach(trade[p].backrunTx, trade[p].recoveryTier)


\* The confirmation levels that are at least "confirmed".
ConfirmedOrStronger == {"confirmed", "finalized"}

\* C29: a poll of waitForTransaction that finds the target at the
\* confirmed level or at a stronger one (finalized) makes
\* waitForTransaction return, and the normal sell is submitted; a target
\* seen only as finalized counts as confirmed.
C29_FinalizedCountsAsConfirmed ==
  \A p \in Tasks :
    InTargetWait(p) =>
      \A status \in ConfirmedOrStronger :
        /\ AfterPoll(trade[p], status).targetConfirmed
        /\ AfterPoll(trade[p], status).sellSubmitted


\* The delivery to task p was dropped without analysis: no venue in its
\* logs (empty logs included), or no transaction details.
DroppedUnanalysed(p) ==
  hpc[p] = "done" /\ verdict[p] = "dropped"

\* C30: a signature whose delivery was dropped without analysis is
\* analysed when it is delivered again with valid logs and available
\* details: a delivery is suppressed as a duplicate only if some earlier
\* delivery of its signature was not dropped without analysis.
C30_DroppedIsNotRemembered ==
  [][\A q \in Tasks :
       (hpc[q] = "idle" /\ verdict'[q] = "duplicate") =>
         \E p \in Tasks :
           /\ p # q
           /\ sig[p] = sig'[q]
           /\ ~ DroppedUnanalysed(p)]_vars

=============================================================================
